---- MODULE Spec2Model ----
(***************************************************************************)
(* Usage-limited coordinate-to-address server of map-addr-saver.           *)
(*                                                                         *)
(* The repository holds two builds of the server.  server/routes.ts with   *)
(* server/storage.ts is the TypeScript source (run through tsx, which      *)
(* strips the types and does not type-check); the bundle dist/index.js     *)
(* (src/unnamed/part_004) holds the same routes over an earlier            *)
(* MemStorage whose map is keyed by record id.  The variable `build` says  *)
(* which of the two is running; it never changes.                          *)
(*                                                                         *)
(* A request handler is an async function: it runs without interruption    *)
(* up to an await and is resumed later, so every action below is one       *)
(* await-free segment of a handler.  A call of an async storage method     *)
(* runs the method body at the call (the body holds no await); only the    *)
(* use of its result is deferred.                                          *)
(*                                                                         *)
(* The second part is the map widget of the client, KakaoMap, in its three *)
(* revisions: the React component with its two effects, the refs it keeps  *)
(* and the maps, markers and click listeners it creates in the Kakao SDK.  *)
(* The server and the widget have a specification each; the variables of   *)
(* the one do not change in the other.                                     *)
(***************************************************************************)
EXTENDS Integers, Sequences, FiniteSets, TLC

\* ---------------------------------------------------------------- bounds
NumClients == 2
MaxDay == 2
NumReq == 2
MaxStarted == 2
PreSlack == 1
MaxCalls == 101
NumCallbacks == 2
MaxMaps == 3
MaxMarkers == 3
MaxClicks == 2

\* ------------------------------------------------------ program constants
\* routes.ts:33  if (existingUsage.usageCount >= 100)
DailyLimit == 100
\* routes.ts:69  limit: 100
ReportedLimit == 100

Clients == 1..NumClients
Days == 1..MaxDay
Reqs == 1..NumReq
Builds == {"server", "dist"}

\* ------------------------------------------------------------- JS values
\* Strings and numbers that meet in a map key are kept apart by a tag: an
\* IP address, a YYYY-MM-DD date, a UUID and the decimal rendering of a
\* number are different strings.
IpAddr(c) == <<"ip", c>>
DateStr(d) == <<"date", d>>
Uuid(n) == <<"uuid", n>>
Num(n) == <<"num", n>>
Undefined == <<"undefined", 0>>

\* crypto.randomUUID(): a value no earlier call returned
randomUUID(n) == Uuid(n)

\* ------------------------------------------------------------ JS Map
\* A Map is the sequence of its entries in insertion order.
MapIndex(m, k) == {i \in 1..Len(m) : m[i].key = k}

MapHas(m, k) == MapIndex(m, k) # {}

\* Map.get: <<>> stands for undefined, <<v>> for the value v
MapGet(m, k) ==
  IF MapHas(m, k) THEN <<m[CHOOSE i \in MapIndex(m, k) : TRUE].val>> ELSE <<>>

\* Map.set: a present key keeps its place, a new key is appended
MapSet(m, k, v) ==
  IF MapHas(m, k)
  THEN [i \in 1..Len(m) |-> IF m[i].key = k THEN [key |-> k, val |-> v] ELSE m[i]]
  ELSE Append(m, [key |-> k, val |-> v])

\* Array.from(map.values())
MapValues(m) == [i \in 1..Len(m) |-> m[i].val]

\* Array.prototype.find, given the indices of the elements that satisfy
\* the test: the first of them, <<>> for undefined
ArrayFind(a, hits) ==
  IF hits = {} THEN <<>>
  ELSE <<a[CHOOSE i \in hits : \A j \in hits : i <= j]>>

\* ------------------------------------------------- MemStorage, storage.ts
\* a key made of the date alone
getKey_dateonly(ipAddress, date) == <<IpAddr(0), date>>

\* `${ipAddress}-${date}`
getKey(ipAddress, date) == <<ipAddress, date>>

getUsageByIpAndDate_server(recs, ipAddress, date) ==
  MapGet(recs, getKey(ipAddress, date))

\* the record createUsageRecord builds from insertUsage
NewUsage(insertUsage, id, now) ==
  [id |-> id, ipAddress |-> insertUsage.ipAddress, date |-> insertUsage.date,
   usageCount |-> insertUsage.usageCount, createdAt |-> now, updatedAt |-> now]

createUsageRecord_server(recs, insertUsage, id, now) ==
  MapSet(recs, getKey(insertUsage.ipAddress, insertUsage.date),
         NewUsage(insertUsage, id, now))

\* updateUsageCount(ipAddress, date, count): does the key have a record?
updateFinds_server(recs, ipAddress, date) ==
  MapHas(recs, getKey(ipAddress, date))

\* the record updateUsageCount stores: existing with count and updatedAt set
UpdatedUsage(existing, count, now) ==
  [existing EXCEPT !.usageCount = count, !.updatedAt = now]

updateUsageCount_server(recs, ipAddress, date, count, now) ==
  LET key == getKey(ipAddress, date)
  IN MapSet(recs, key, UpdatedUsage(MapGet(recs, key)[1], count, now))

\* ------------------------------------- MemStorage, dist/index.js (bundle)
getUsageByIpAndDate_dist(recs, ipAddress, date) ==
  LET values == MapValues(recs)
  IN ArrayFind(values, {i \in 1..Len(values) :
                          values[i].ipAddress = ipAddress /\ values[i].date = date})

createUsageRecord_dist(recs, insertUsage, id, now) ==
  MapSet(recs, id, NewUsage(insertUsage, id, now))

updateFinds_dist(recs, id) == MapHas(recs, id)

updateUsageCount_dist(recs, id, count, now) ==
  MapSet(recs, id, UpdatedUsage(MapGet(recs, id)[1], count, now))

VARIABLES build, day, usageRecords, nextId, req, last, calls, requested, started

\* the map widget: revision is the KakaoMap source that runs, kakao says
\* that window.kakao is defined, props are the props of the latest render,
\* widget holds the refs and the SDK objects, clicked the latest click
VARIABLES revision, kakao, props, widget, clicked

serverVars ==
  <<build, day, usageRecords, nextId, req, last, calls, requested, started>>

mapVars == <<revision, kakao, props, widget, clicked>>

\* the page controller (Home): its state as of the latest render, the
\* usage query of useUsageLimit and the calls of handleLocationSelect
VARIABLES page

vars == <<build, day, usageRecords, nextId, req, last, calls, requested, started,
          revision, kakao, props, widget, clicked, page>>

\* ------------------------------------------------- storage of the build
\* a lookup that matches the client and forgets the date
Lookup_anydate(recs, ipAddress, date) ==
  LET values == MapValues(recs)
  IN ArrayFind(values, {i \in 1..Len(values) : values[i].ipAddress = ipAddress})

Lookup(recs, ipAddress, date) ==
  IF build = "server"
  THEN getUsageByIpAndDate_server(recs, ipAddress, date)
  ELSE getUsageByIpAndDate_dist(recs, ipAddress, date)

getUsageByIpAndDate(ipAddress, date) == Lookup(usageRecords, ipAddress, date)

createUsageRecord(insertUsage) ==
  IF build = "server"
  THEN createUsageRecord_server(usageRecords, insertUsage, randomUUID(nextId), day)
  ELSE createUsageRecord_dist(usageRecords, insertUsage, randomUUID(nextId), day)

\* storage.updateUsageCount(a1, a2) as routes.ts calls it, with two
\* arguments.  The server build binds them to (ipAddress, date) and leaves
\* count undefined; the bundle binds them to (id, count).
updateThrows(a1, a2) ==
  IF build = "server"
  THEN ~updateFinds_server(usageRecords, a1, Num(a2))
  ELSE ~updateFinds_dist(usageRecords, a1)

updateUsageCount(a1, a2) ==
  IF build = "server"
  THEN updateUsageCount_server(usageRecords, a1, Num(a2), Undefined, day)
  ELSE updateUsageCount_dist(usageRecords, a1, a2, day)


\* ------------------------------------------------------ shared/schema.ts
\* A JSON body is known by the type of its lat and lng members.
Bodies ==
  {[lat |-> "number", lng |-> "number"],
   [lat |-> "string", lng |-> "missing"]}

NoBody == [lat |-> "missing", lng |-> "missing"]

\* a schema that asks for the members and not for their type
safeParse_present(body) == body.lat # "missing"

\* coordinateToAddressSchema.safeParse(body).success
safeParse(body) == body.lat = "number" /\ body.lng = "number"

\* --------------------------------------------------------- routes.ts
getClientIp(c) == IpAddr(c)

\* a date string computed once, when the server starts
getTodayDateString_frozen == DateStr(1)

getTodayDateString == DateStr(day)

\* a quota check that seeds the new record as incrementUsageCount does
CheckInsert_one(ipAddress, today) ==
  [ipAddress |-> ipAddress, usageCount |-> 1, date |-> today]

\* checkUsageLimit after its lookup: the record it creates when there is none
CheckInsert(ipAddress, today) ==
  [ipAddress |-> ipAddress, usageCount |-> 0, date |-> today]

\* a quota check that refuses above the limit and not at it
CheckResult_gt(existingUsage) ==
  IF existingUsage = <<>> THEN [allowed |-> TRUE, currentCount |-> 0]
  ELSE IF existingUsage[1].usageCount > DailyLimit
       THEN [allowed |-> FALSE, currentCount |-> existingUsage[1].usageCount]
       ELSE [allowed |-> TRUE, currentCount |-> existingUsage[1].usageCount]

\* checkUsageLimit's result {allowed, currentCount} for the record it found
CheckResult(existingUsage) ==
  IF existingUsage = <<>> THEN [allowed |-> TRUE, currentCount |-> 0]
  ELSE IF existingUsage[1].usageCount >= DailyLimit
       THEN [allowed |-> FALSE, currentCount |-> existingUsage[1].usageCount]
       ELSE [allowed |-> TRUE, currentCount |-> existingUsage[1].usageCount]

\* incrementUsageCount after its lookup: the record it creates when there is none
IncrementInsert(ipAddress, today) ==
  [ipAddress |-> ipAddress, usageCount |-> 1, date |-> today]

\* an increment that stops counting at the limit
NewCount_clamped(existingUsage) ==
  IF existingUsage[1].usageCount >= DailyLimit THEN DailyLimit
  ELSE existingUsage[1].usageCount + 1

\* incrementUsageCount: newCount for the record it found
NewCount(existingUsage) == existingUsage[1].usageCount + 1

\* what the external geocoding service can answer
Documents ==
  {[address |-> a, road_address |-> ra] : a \in BOOLEAN, ra \in BOOLEAN}

Upstream ==
  {[kind |-> "ok", documents |-> <<d>>] : d \in Documents}
    \cup {[kind |-> "ok", documents |-> <<>>]}
    \cup {[kind |-> "axiosError", status |-> s] : s \in {0, 401, 429, 500}}

\* an extraction that prefers the road address
ExtractAddress_roadfirst(document) ==
  IF document.road_address THEN "road_address.address_name"
  ELSE IF document.address THEN "address.address_name"
       ELSE "placeholder"

\* the address the handler takes from documents[0]; "placeholder" is the
\* literal the code falls back to
ExtractAddress(document) ==
  IF document.address THEN "address.address_name"
  ELSE IF document.road_address THEN "road_address.address_name"
       ELSE "placeholder"

NoRes ==
  [status |-> 0, message |-> "", address |-> "", count |-> 0, limit |-> 0,
   date |-> <<>>]

Res(status, message) == [NoRes EXCEPT !.status = status, !.message = message]

\* GET /api/usage: res.json({count, limit, date})
UsageJson(usage, today) ==
  [NoRes EXCEPT !.status = 200,
                !.count = IF usage = <<>> THEN 0 ELSE usage[1].usageCount,
                !.limit = ReportedLimit,
                !.date = <<today>>]

\* the 429 both POST handlers send when checkUsageLimit refuses
QuotaRes(currentCount) ==
  [Res(429, "Daily usage limit exceeded (100 requests per day)")
     EXCEPT !.count = currentCount]

InvalidBodyRes == Res(400, "Invalid request body")

NotFoundRes == Res(404, "Address not found for the given coordinates")

\* POST /api/coordinate-to-address: res.json({address, lat, lng, usageCount})
AddressJson(address, newCount) ==
  [NoRes EXCEPT !.status = 200, !.address = address, !.count = newCount]

\* POST /api/static-map: res.send(buffer)
SvgRes == Res(200, "image/svg+xml")

\* a catch block that hands the upstream status on
CoordCatch_passthrough(error) ==
  IF error.kind = "axiosError"
  THEN IF error.status = 401 THEN Res(401, "API authentication failed")
       ELSE IF error.status = 429 THEN Res(429, "API rate limit exceeded")
            ELSE Res(500, "External API error")
  ELSE Res(500, "Failed to convert coordinates to address")

\* a catch block without the branch for the upstream rate limit
CoordCatch_all500(error) ==
  IF error.kind = "axiosError"
  THEN IF error.status = 401 THEN Res(500, "API authentication failed")
       ELSE Res(500, "External API error")
  ELSE Res(500, "Failed to convert coordinates to address")

\* the catch block of POST /api/coordinate-to-address; status 0 stands for
\* an axios error without a response (error.response is undefined)
CoordCatch(error) ==
  IF error.kind = "axiosError"
  THEN IF error.status = 401 THEN Res(500, "API authentication failed")
       ELSE IF error.status = 429 THEN Res(429, "API rate limit exceeded")
            ELSE Res(500, "External API error")
  ELSE Res(500, "Failed to convert coordinates to address")

\* the catch block of POST /api/static-map
MapCatch == Res(500, "Failed to create map image")

\* the error MemStorage.updateUsageCount throws
NotFoundError == [kind |-> "Error", message |-> "Usage record not found"]


\* --------------------------------------------------------------- state
\* req[r]: a request being handled.  pc is the segment of its handler that
\* runs next; today, existingUsage, allowed and currentCount are the
\* handler's locals and res is the response.  Three fields record what
\* the request has done: called, that the handler issued the external
\* geocoding call; mutated, that it changed usageRecords; raised, that it
\* made the count stored for its client and date greater than it was.
\* answer is what axios.get settled with, once it has; error is the
\* exception the handler's catch block received, if it was entered.
\* last is the request that was answered most recently, as it stood when
\* its response was sent (the record it had looked up is dropped).
\* calls[c][d] counts the external geocoding calls
\* for client c that returned a document on day d; requested holds the
\* pairs <<c, d>> such that a segment of a POST handler for client c ran on
\* day d; started counts the requests received, up to MaxStarted.
NoAnswer == [kind |-> "none"]

NoError == [kind |-> "none"]

IdleReq ==
  [pc |-> "idle", route |-> "none", ip |-> IpAddr(0), body |-> NoBody,
   today |-> DateStr(0), existingUsage |-> <<>>, allowed |-> TRUE,
   currentCount |-> 0, called |-> FALSE, mutated |-> FALSE, raised |-> FALSE,
   answer |-> NoAnswer, error |-> NoError, res |-> NoRes]

Routes == {"coordinate-to-address", "static-map"}

NoCalls == [c \in Clients |-> [d \in Days |-> 0]]

\* the store after k successful requests of client 1 on day 1, made one
\* after another to the bundle; SpecSeq reaches it from the empty store.
\* The server build never leaves count 0 this way, so it starts empty.
Preloaded(k) ==
  createUsageRecord_dist(<<>>,
    [ipAddress |-> IpAddr(1), usageCount |-> k, date |-> DateStr(1)],
    randomUUID(1), 1)

\* ------------------------------------------------- KakaoMap, the values
\* a LocationData; an optional one is <<>> (null) or <<location>>
Locations == {[lat |-> 1, lng |-> 2], [lat |-> 2, lng |-> 1]}

OptLocations == {<<>>} \cup {<<l>> : l \in Locations}

\* the functions a parent passes as onLocationSelect, known by identity
Callbacks == 1..NumCallbacks

Revisions == {"KakaoMap.tsx", "KakaoMap.tsx earlier", "part_000"}

PropsSet ==
  [initialLocation : OptLocations, selectedLocation : OptLocations,
   onLocationSelect : Callbacks]

\* before the component is mounted
NoProps ==
  [initialLocation |-> <<>>, selectedLocation |-> <<>>, onLocationSelect |-> 0]

\* mapInstance, markerInstance: the refs, 0 for null, else the index of the
\* object in maps, markers.  clickListener: what addListener returned to
\* the latest run of the map-init effect, 0 for undefined, else the map the
\* listener is on.  maps[m]: the click handlers registered on map m, each
\* known by the onLocationSelect it closes over.  markers[k]: its position
\* and the map it is attached to, 0 for none.
NoWidget ==
  [mapInstance |-> 0, markerInstance |-> 0, clickListener |-> 0,
   maps |-> <<>>, markers |-> <<>>]

\* clicked.calls: the onLocationSelect invocations the click caused
NoClick == [at |-> <<>>, calls |-> <<>>]

NoMap ==
  /\ revision = "none"
  /\ kakao = FALSE
  /\ props = NoProps
  /\ widget = NoWidget
  /\ clicked = NoClick

\* ------------------------------------------------- Home, the values
\* showToast("오늘 조회 한도(100회)에 도달했습니다.", "error")
LimitToast == "daily limit (100) reached"

\* the usage query's state before the first render of Home: no request
\* sent; "sent" and "answered" follow, res is the response on its way back
NoQuery == [state |-> "idle", res |-> NoRes]

\* Home before its first render.  selectedLocation, isLoading: the useState
\* values; toast: the message last given to showToast; data: what useQuery
\* last fetched, <<>> for undefined, and stale says that the effect of
\* useUsageLimit has not run for it yet; usageCount, isUsageLimitExceeded:
\* the hook's useState values; fetches: one entry for each fetch that
\* handleLocationSelect has started, in the order of the calls; clicks: the
\* calls of handleLocationSelect so far
NoPage ==
  [selectedLocation |-> <<>>, isLoading |-> FALSE, toast |-> "",
   data |-> <<>>, stale |-> FALSE, usageCount |-> 0,
   isUsageLimitExceeded |-> FALSE, query |-> NoQuery,
   fetches |-> <<>>, clicks |-> 0]

\* Home after its first render: useQuery has sent GET /api/usage
FirstRender == [NoPage EXCEPT !.query = [state |-> "sent", res |-> NoRes]]

\* the client the page's requests come from
Browser == 1

InitCommon ==
  /\ build \in Builds
  /\ day = 1
  /\ req = [r \in Reqs |-> IdleReq]
  /\ last = IdleReq
  /\ started = 0
  /\ NoMap

InitEmpty ==
  /\ usageRecords = <<>>
  /\ nextId = 1
  /\ calls = NoCalls
  /\ requested = {}

InitPreloaded ==
  /\ build = "dist"
  /\ \E k \in (DailyLimit - PreSlack)..DailyLimit :
       /\ usageRecords = Preloaded(k)
       /\ calls = [NoCalls EXCEPT ![1][1] = k]
  /\ nextId = 2
  /\ requested = {<<1, 1>>}

Init == InitCommon /\ (InitEmpty \/ InitPreloaded) /\ page = NoPage

Bump(n) == IF n < MaxStarted THEN n + 1 ELSE n

\* request r goes on as q; a request that has been answered leaves
Settle(r, q) ==
  IF q.pc = "done"
  THEN req' = [req EXCEPT ![r] = IdleReq] /\ last' = [q EXCEPT !.existingUsage = <<>>]
  ELSE req' = [req EXCEPT ![r] = q] /\ UNCHANGED last

\* the count a usage query reads in recs for (ipAddress, date)
CountIn(recs, ipAddress, date) ==
  LET usage == Lookup(recs, ipAddress, date)
  IN IF usage = <<>> THEN 0 ELSE usage[1].usageCount

\* request q after a segment that left the store as recs
Effects(q, recs) ==
  [q EXCEPT !.mutated = @ \/ recs # usageRecords,
            !.raised = @ \/ CountIn(recs, q.ip, q.today)
                              > CountIn(usageRecords, q.ip, q.today)]

\* requested with the day on which a segment of request r runs
Handling(r) == requested \cup {<<req[r].ip[2], day>>}

\* requests are told apart by what they do, not by where they are kept
FirstIdle(r) ==
  /\ req[r].pc = "idle"
  /\ \A r2 \in Reqs : r2 < r => req[r2].pc # "idle"

\* the clock reaches midnight (UTC): getTodayDateString changes
Tick ==
  /\ day < MaxDay
  /\ day' = day + 1
  /\ UNCHANGED mapVars
  /\ UNCHANGED <<build, usageRecords, nextId, req, last, calls, requested, started>>

\* a usage query that stores a count-0 record when it finds none, as
\* checkUsageLimit does
GetUsage_creating(c) ==
  /\ LET ipAddress == getClientIp(c)
         today == getTodayDateString
         usage == getUsageByIpAndDate(ipAddress, today)
     IN /\ last' = [IdleReq EXCEPT !.pc = "done", !.route = "usage",
                                   !.ip = ipAddress, !.today = today,
                                   !.res = UsageJson(usage, today)]
        /\ usageRecords' = IF usage = <<>>
                           THEN createUsageRecord(CheckInsert(ipAddress, today))
                           ELSE usageRecords
        /\ nextId' = IF usage = <<>> THEN nextId + 1 ELSE nextId
  /\ started' = Bump(started)
  /\ UNCHANGED mapVars
  /\ UNCHANGED <<build, day, req, calls, requested>>

\* GET /api/usage, whole handler: the lookup runs at the call and nothing
\* the handler does after its await reads or writes shared state
GetUsage(c) ==
  /\ LET ipAddress == getClientIp(c)
         today == getTodayDateString
         usage == getUsageByIpAndDate(ipAddress, today)
     IN last' = [IdleReq EXCEPT !.pc = "done", !.route = "usage",
                                !.ip = ipAddress, !.today = today,
                                !.res = UsageJson(usage, today)]
  /\ started' = Bump(started)
  /\ UNCHANGED mapVars
  /\ UNCHANGED <<build, day, usageRecords, nextId, req, calls, requested>>

\* a POST handler up to the first await of checkUsageLimit: the lookup
StartPost(r, c, route, body) ==
  /\ FirstIdle(r)
  /\ LET ipAddress == getClientIp(c)
         today == getTodayDateString
     IN req' = [req EXCEPT ![r] =
                  [IdleReq EXCEPT !.pc = "check", !.route = route,
                                  !.ip = ipAddress, !.body = body,
                                  !.today = today,
                                  !.existingUsage =
                                     getUsageByIpAndDate(ipAddress, today)]]
  /\ requested' = requested \cup {<<c, day>>}
  /\ started' = Bump(started)
  /\ UNCHANGED mapVars
  /\ UNCHANGED <<build, day, usageRecords, nextId, last, calls>>

\* checkUsageLimit resumed with the lookup's result
CheckUsageLimit(r) ==
  /\ req[r].pc = "check"
  /\ LET q == req[r]
         result == CheckResult(q.existingUsage)
         recs == IF q.existingUsage = <<>>
                 THEN createUsageRecord(CheckInsert(q.ip, q.today))
                 ELSE usageRecords
     IN /\ usageRecords' = recs
        /\ nextId' = IF q.existingUsage = <<>> THEN nextId + 1 ELSE nextId
        /\ req' = [req EXCEPT ![r] =
                    [Effects(q, recs) EXCEPT !.pc = "checked",
                                             !.allowed = result.allowed,
                                             !.currentCount = result.currentCount]]
  /\ requested' = Handling(r)
  /\ UNCHANGED mapVars
  /\ UNCHANGED <<build, day, last, calls, started>>

\* a handler that drops the return on a refused quota check
AfterCheckStep_noquota(allowed, body) ==
  IF ~safeParse(body) THEN "400" ELSE "proceed"

\* a handler that drops the return on a failed validation
AfterCheckStep_novalidate(allowed, body) ==
  IF ~allowed THEN "429" ELSE "proceed"

\* what a POST handler does with checkUsageLimit's result, up to its next
\* await: "429", "400", or "proceed"
AfterCheckStep(allowed, body) ==
  IF ~allowed THEN "429"
  ELSE IF ~safeParse(body) THEN "400"
       ELSE "proceed"

\* the handler resumed with {allowed, currentCount}
AfterCheck(r) ==
  /\ req[r].pc = "checked"
  /\ LET q == req[r]
         step == AfterCheckStep(q.allowed, q.body)
     IN Settle(r,
          IF step = "429"
          THEN [q EXCEPT !.pc = "done", !.res = QuotaRes(q.currentCount)]
          ELSE IF step = "400"
          THEN [q EXCEPT !.pc = "done", !.res = InvalidBodyRes]
          ELSE IF q.route = "coordinate-to-address"
          THEN [q EXCEPT !.pc = "upstream", !.called = TRUE]
          ELSE \* static-map calls incrementUsageCount: its lookup
               [q EXCEPT !.pc = "increment",
                         !.today = getTodayDateString,
                         !.existingUsage =
                            getUsageByIpAndDate(q.ip, getTodayDateString)])
  /\ requested' = Handling(r)
  /\ UNCHANGED mapVars
  /\ UNCHANGED <<build, day, usageRecords, nextId, calls, started>>

\* a handler that answers 404 when the first document carries no address
UpstreamStep_needsAddress(answer) ==
  IF answer.kind # "ok" THEN "catch"
  ELSE IF Len(answer.documents) = 0 THEN "404"
       ELSE IF ~answer.documents[1].address /\ ~answer.documents[1].road_address
            THEN "404"
            ELSE "increment"

\* what the coordinate handler does with the upstream answer, up to its
\* next await: "catch", "404" or "increment"
UpstreamStep(answer) ==
  IF answer.kind # "ok" THEN "catch"
  ELSE IF Len(answer.documents) = 0 THEN "404"
       ELSE "increment"

ClientOf(ipAddress) == ipAddress[2]

DayOf(date) == date[2]

\* axios.get settles and the coordinate handler resumes
UpstreamReturn(r, answer) ==
  /\ req[r].pc = "upstream"
  /\ LET q == req[r]
         step == UpstreamStep(answer)
     IN /\ Settle(r,
             IF step = "catch"
             THEN [q EXCEPT !.pc = "done", !.answer = answer,
                            !.error = answer, !.res = CoordCatch(answer)]
             ELSE IF step = "404"
             THEN [q EXCEPT !.pc = "done", !.answer = answer,
                            !.res = NotFoundRes]
             ELSE [q EXCEPT !.pc = "increment", !.answer = answer,
                            !.res = [NoRes EXCEPT !.address =
                                       ExtractAddress(answer.documents[1])],
                            !.today = getTodayDateString,
                            !.existingUsage =
                               getUsageByIpAndDate(q.ip, getTodayDateString)])
        /\ calls' = IF answer.kind = "ok" /\ Len(answer.documents) > 0
                    THEN [calls EXCEPT ![ClientOf(q.ip)][day] = @ + 1]
                    ELSE calls
  /\ requested' = Handling(r)
  /\ UNCHANGED mapVars
  /\ UNCHANGED <<build, day, usageRecords, nextId, started>>

\* the response of a POST handler whose incrementUsageCount returned newCount
Success(route, address, newCount) ==
  IF route = "coordinate-to-address" THEN AddressJson(address, newCount)
  ELSE SvgRes

\* a catch block that logs the error and sends nothing
Failure_silent(route, error) == NoRes

\* the response of a POST handler whose incrementUsageCount threw
Failure(route, error) ==
  IF route = "coordinate-to-address" THEN CoordCatch(error) ELSE MapCatch

\* incrementUsageCount resumed with the lookup's result, and the rest of
\* the handler (which touches no shared state)
IncrementUsageCount(r) ==
  /\ req[r].pc = "increment"
  /\ LET q == req[r]
         create == q.existingUsage = <<>>
         newCount == IF create THEN 1 ELSE NewCount(q.existingUsage)
         threw == IF create THEN FALSE
                  ELSE updateThrows(q.existingUsage[1].id, newCount)
         recs == IF create
                 THEN createUsageRecord(IncrementInsert(q.ip, q.today))
                 ELSE IF threw THEN usageRecords
                 ELSE updateUsageCount(q.existingUsage[1].id, newCount)
     IN /\ usageRecords' = recs
        /\ nextId' = IF create THEN nextId + 1 ELSE nextId
        /\ Settle(r, [Effects(q, recs) EXCEPT
                        !.pc = "done",
                        !.error = IF threw THEN NotFoundError ELSE NoError,
                        !.res = IF threw THEN Failure(q.route, NotFoundError)
                                ELSE Success(q.route, q.res.address, newCount)])
  /\ requested' = Handling(r)
  /\ UNCHANGED mapVars
  /\ UNCHANGED <<build, day, calls, started>>

\* what express.json() passes to next() for a body it cannot take: a
\* syntax error (400) or a body over the size limit (413)
BodyParserErrors ==
  {[status |-> 400, message |-> "entity.parse.failed"],
   [status |-> 413, message |-> "entity.too.large"]}

\* the error-handling middleware of index.ts; status 0 and message ""
\* stand for an error without the member
ErrorMiddleware(err) ==
  Res(IF err.status # 0 THEN err.status ELSE 500,
      IF err.message # "" THEN err.message ELSE "Internal Server Error")

\* a POST whose body express.json() rejects: no route handler runs and the
\* error-handling middleware answers
BodyParserError(c, err) ==
  /\ last' = [IdleReq EXCEPT !.pc = "done", !.route = "none",
                             !.ip = getClientIp(c),
                             !.today = getTodayDateString,
                             !.error = err,
                             !.res = ErrorMiddleware(err)]
  /\ started' = Bump(started)
  /\ UNCHANGED mapVars
  /\ UNCHANGED <<build, day, usageRecords, nextId, req, calls, requested>>

\* a segment that continues request r after an await
Segment(r) ==
  \/ CheckUsageLimit(r)
  \/ AfterCheck(r)
  \/ \E answer \in Upstream : UpstreamReturn(r, answer)
  \/ IncrementUsageCount(r)

\* segments that continue a request already started
Continue ==
  /\ \E r \in Reqs : Segment(r)
  /\ UNCHANGED page

Next ==
  \/ Tick /\ UNCHANGED page
  \/ /\ started < MaxStarted
     /\ \E c \in Clients : GetUsage(c)
     /\ UNCHANGED page
  \/ /\ started < MaxStarted
     /\ \E r \in Reqs, c \in Clients, route \in Routes, body \in Bodies :
          StartPost(r, c, route, body)
     /\ UNCHANGED page
  \/ /\ started < MaxStarted
     /\ \E c \in Clients, err \in BodyParserErrors : BodyParserError(c, err)
     /\ UNCHANGED page
  \/ Continue

Spec == Init /\ [][Next]_vars

\* Every awaited promise settles and its handler is resumed: the storage
\* methods return resolved promises, and axios.get settles with an answer
\* or with an error.
SpecLive == Spec /\ WF_vars(Continue)


\* ------------------------------------------- requests one after another
\* Client 1 sends address resolutions and usage queries, each after the
\* answer to the one before, to a server that has just started.
Quiet == \A r \in Reqs : req[r].pc = "idle"

InitSeq == InitCommon /\ InitEmpty /\ page = NoPage

NextSeq ==
  \/ Tick /\ UNCHANGED page
  \/ Quiet /\ GetUsage(1) /\ UNCHANGED page
  \/ /\ Quiet
     /\ calls[1][day] < MaxCalls
     /\ \E body \in Bodies : StartPost(1, 1, "coordinate-to-address", body)
     /\ UNCHANGED page
  \/ Continue

SpecSeq == InitSeq /\ [][NextSeq]_vars


\* ------------------------------------------------------------ KakaoMap
\* marker.setMap(null) on the marker markerInstance refers to
setMapNull_skip(markers, k) == markers

setMapNull(markers, k) == [markers EXCEPT ![k].map = 0]

\* addMarker(lat, lng)
addMarker(w, location, sdk) ==
  IF w.mapInstance = 0 \/ ~sdk THEN w
  ELSE LET detached == IF w.markerInstance # 0
                       THEN setMapNull(w.markers, w.markerInstance)
                       ELSE w.markers
           marker == [position |-> location, map |-> w.mapInstance]
       IN [w EXCEPT !.markers = Append(detached, marker),
                    !.markerInstance = Len(detached) + 1]

\* the location the map-init effect places the first marker at
FirstMarker(p) ==
  IF revision = "part_000" THEN p.selectedLocation ELSE p.initialLocation

\* a map-init effect that keeps the map it finds in mapInstance and
\* registers its click listener on it
MapInitEffect_reuse(w, p, sdk, handle) ==
  IF ~sdk THEN [w EXCEPT !.clickListener = 0]
  ELSE LET m == IF w.mapInstance # 0 THEN w.mapInstance ELSE Len(w.maps) + 1
           created ==
             [w EXCEPT !.maps = IF w.mapInstance # 0
                                THEN [@ EXCEPT ![m] = Append(@, p.onLocationSelect)]
                                ELSE Append(@, <<p.onLocationSelect>>),
                       !.mapInstance = m,
                       !.clickListener =
                          IF revision = "KakaoMap.tsx" /\ handle THEN m ELSE 0]
       IN IF FirstMarker(p) # <<>>
          THEN addMarker(created, FirstMarker(p)[1], sdk)
          ELSE created

\* the map-init effect; handle says that addListener returned an object
\* (the SDK decides).  mapRef.current is set once the component is mounted.
MapInitEffect(w, p, sdk, handle) ==
  IF ~sdk THEN [w EXCEPT !.clickListener = 0]
  ELSE LET m == Len(w.maps) + 1
           created ==
             [w EXCEPT !.maps = Append(@, <<p.onLocationSelect>>),
                       !.mapInstance = m,
                       !.clickListener =
                          IF revision = "KakaoMap.tsx" /\ handle THEN m ELSE 0]
       IN IF FirstMarker(p) # <<>>
          THEN addMarker(created, FirstMarker(p)[1], sdk)
          ELSE created

\* the cleanup the map-init effect returned (KakaoMap.tsx only):
\* removeListener(clickListener) when clickListener is not undefined
Cleanup(w) ==
  IF revision = "KakaoMap.tsx" /\ w.clickListener # 0
  THEN [w EXCEPT !.maps[w.clickListener] = <<>>, !.clickListener = 0]
  ELSE w

\* the dependencies of the map-init effect that can change (addMarker is
\* the same function in every render)
MapInitDeps(p) ==
  IF revision = "KakaoMap.tsx" THEN <<p.initialLocation, p.onLocationSelect>>
  ELSE IF revision = "KakaoMap.tsx earlier" THEN <<p.initialLocation>>
       ELSE <<>>

\* the selected-location effect
SelectedEffect(w, p, sdk) ==
  IF revision = "part_000" /\ ~sdk THEN w
  ELSE IF p.selectedLocation # <<>> /\ w.mapInstance # 0
       THEN addMarker(w, p.selectedLocation[1], sdk)
       ELSE w

SelectedDeps(p) == <<p.selectedLocation>>

Mounted == props # NoProps

\* the SDK objects the model has room for
Room(w) == Len(w.maps) < MaxMaps /\ Len(w.markers) + 1 < MaxMarkers

\* the component is mounted: first render, then both effects
Mount(p, handle) ==
  /\ ~Mounted
  /\ props' = p
  /\ widget' = SelectedEffect(MapInitEffect(widget, p, kakao, handle), p, kakao)
  /\ UNCHANGED <<revision, kakao, clicked>>
  /\ UNCHANGED serverVars
  /\ UNCHANGED page

\* the parent renders again with props p: the cleanup and the effects
\* whose dependencies changed run, in the order of the source
Render(p, handle) ==
  /\ Mounted
  /\ Room(widget)
  /\ props' = p
  /\ LET w1 == IF MapInitDeps(p) # MapInitDeps(props)
               THEN MapInitEffect(Cleanup(widget), p, kakao, handle)
               ELSE widget
     IN widget' = IF SelectedDeps(p) # SelectedDeps(props)
                  THEN SelectedEffect(w1, p, kakao)
                  ELSE w1
  /\ UNCHANGED <<revision, kakao, clicked>>
  /\ UNCHANGED serverVars
  /\ UNCHANGED page

\* the SDK script has loaded
SdkLoaded ==
  /\ ~kakao
  /\ kakao' = TRUE
  /\ UNCHANGED <<revision, props, widget, clicked>>
  /\ UNCHANGED serverVars
  /\ UNCHANGED page

\* the click handler: onLocationSelect({lat: getLat(), lng: getLng()})
Handler(onLocationSelect, latLng) ==
  [callback |-> onLocationSelect,
   location |-> [lat |-> latLng.lat, lng |-> latLng.lng]]

\* the user clicks the map on display, the one created last, at latLng:
\* the SDK calls the click handlers registered on it
Click(latLng) ==
  /\ widget.mapInstance # 0
  /\ LET handlers == widget.maps[widget.mapInstance]
     IN clicked' = [at |-> <<latLng>>,
                    calls |-> [i \in 1..Len(handlers) |->
                                 Handler(handlers[i], latLng)]]
  /\ UNCHANGED <<revision, kakao, props, widget>>
  /\ UNCHANGED serverVars
  /\ UNCHANGED page

ServerOff ==
  /\ build = "none"
  /\ day = 1
  /\ usageRecords = <<>>
  /\ nextId = 1
  /\ req = [r \in Reqs |-> IdleReq]
  /\ last = IdleReq
  /\ calls = NoCalls
  /\ requested = {}
  /\ started = 0

InitMap ==
  /\ revision \in Revisions
  /\ kakao \in BOOLEAN
  /\ props = NoProps
  /\ widget = NoWidget
  /\ clicked = NoClick
  /\ page = NoPage
  /\ ServerOff

NextMap ==
  \/ \E p \in PropsSet, handle \in BOOLEAN : Mount(p, handle)
  \/ \E p \in PropsSet, handle \in BOOLEAN : Render(p, handle)
  \/ SdkLoaded
  \/ \E latLng \in Locations : Click(latLng)

SpecMap == InitMap /\ [][NextMap]_vars

\* the page keeps running: the parent renders and the user clicks as long
\* as there is something to do
SpecMapLive == SpecMap /\ WF_vars(NextMap)


\* ------------------------------------------------- Home, the page
\* JSON.stringify({lat: location.lat, lng: location.lng}) as the server
\* reads it
JsonBody(location) == [lat |-> "number", lng |-> "number"]

\* the fetch handleLocationSelect(location) starts, handled in slot r of
\* the server: location is the handler's argument, sent the coordinates in
\* the request body
Fetch(location, r) ==
  [location |-> location,
   sent |-> [lat |-> location.lat, lng |-> location.lng],
   slot |-> r, state |-> "sent", res |-> NoRes]

\* a call of handleLocationSelect, up to its first await
HandleLocationSelect(location) ==
  /\ page.clicks < MaxClicks
  /\ IF page.isUsageLimitExceeded
     THEN /\ page' = [page EXCEPT !.toast = LimitToast, !.clicks = @ + 1]
          /\ UNCHANGED serverVars
          /\ UNCHANGED mapVars
     ELSE \E r \in Reqs :
            /\ StartPost(r, Browser, "coordinate-to-address", JsonBody(location))
            /\ page' = [page EXCEPT !.isLoading = TRUE,
                                    !.fetches = Append(@, Fetch(location, r)),
                                    !.clicks = @ + 1]

\* the page when the server has answered the request in slot r with res
Delivered(pg, r, res) ==
  [pg EXCEPT !.fetches =
     [i \in 1..Len(@) |->
        IF @[i].slot = r /\ @[i].state = "sent"
        THEN [@[i] EXCEPT !.state = "answered", !.res = res]
        ELSE @[i]]]

\* the server runs a segment of one of the page's requests
Served ==
  \E r \in Reqs :
    /\ Segment(r)
    /\ page' = IF req'[r].pc = "idle" THEN Delivered(page, r, last'.res)
               ELSE page

\* response.ok
Ok(res) == res.status \in 200..299

\* refetchUsage(): the query is fetched again, a fetch under way is dropped
Refetch(query) == [state |-> "sent", res |-> NoRes]

\* handleLocationSelect resumed with the response to fetch i, to its end
Resolved(pg, i) ==
  LET f == pg.fetches[i]
  IN [pg EXCEPT
        !.selectedLocation =
           IF Ok(f.res)
           THEN <<[lat |-> f.location.lat, lng |-> f.location.lng,
                   address |-> [text |-> f.res.address, of |-> f.sent]]>>
           ELSE @,
        !.query = IF Ok(f.res) THEN Refetch(@) ELSE @,
        !.toast = IF Ok(f.res) THEN @ ELSE f.res.message,
        !.isLoading = FALSE,
        !.fetches[i].state = "done"]

Resolve(i) ==
  /\ page.fetches[i].state = "answered"
  /\ page' = Resolved(page, i)
  /\ UNCHANGED serverVars
  /\ UNCHANGED mapVars

\* the server answers the usage query
UsageServed ==
  /\ page.query.state = "sent"
  /\ GetUsage(Browser)
  /\ page' = [page EXCEPT !.query = [state |-> "answered", res |-> last'.res]]

\* useQuery has the response: Home renders with the new data
UsageArrives ==
  /\ page.query.state = "answered"
  /\ LET data == <<[count |-> page.query.res.count,
                    limit |-> page.query.res.limit]>>
     IN page' = [page EXCEPT !.data = data,
                             !.stale = @ \/ data # page.data,
                             !.query = NoQuery]
  /\ UNCHANGED serverVars
  /\ UNCHANGED mapVars

\* a flag that is raised above the limit and not at it
Exceeded_gt(data) == data.count > data.limit

\* data.count >= data.limit
Exceeded(data) == data.count >= data.limit

\* the effect of useUsageLimit runs for the data of the latest render,
\* and Home renders with the state it set
UsageEffect ==
  /\ page.stale
  /\ page' = [page EXCEPT
                !.usageCount = page.data[1].count,
                !.isUsageLimitExceeded = Exceeded(page.data[1]),
                !.stale = FALSE]
  /\ UNCHANGED serverVars
  /\ UNCHANGED mapVars

InitPage == InitCommon /\ (InitEmpty \/ InitPreloaded) /\ page = FirstRender

NextPage ==
  \/ \E location \in Locations : HandleLocationSelect(location)
  \/ Served
  \/ \E i \in 1..Len(page.fetches) : Resolve(i)
  \/ UsageServed
  \/ UsageArrives
  \/ UsageEffect
  \/ Tick /\ UNCHANGED page

\* The page of one browser and the server it talks to.
SpecPage == InitPage /\ [][NextPage]_vars


\* ================================================================ claims
Handled == {req[r] : r \in Reqs} \cup {last}

CoordDone == last.pc = "done" /\ last.route = "coordinate-to-address"

\* a coordinate-to-address request whose body lacks a numeric lat or lng
Malformed(q) ==
  /\ q.route = "coordinate-to-address"
  /\ q.body.lat # "number" \/ q.body.lng # "number"

StoredCount(c, d) == CountIn(usageRecords, IpAddr(c), DateStr(d))

\* C1: after N < 100 successful address resolutions of a client on a day,
\* made one after another, the usage query of that client on that day
\* answers count = N.
C1_UsageCountsResolutions ==
  (last.route = "usage" /\ Quiet /\ calls[1][DayOf(last.today)] < DailyLimit)
    => last.res.count = calls[1][DayOf(last.today)]

\* C2: a coordinate-to-address request whose quota check finds the stored
\* count at 100 is answered 429 with the quota message and does not change
\* the store.
C2_RefusedAtLimit ==
  \A q \in Handled :
    (q.route = "coordinate-to-address" /\ q.pc \in {"checked", "done"}
       /\ q.currentCount = DailyLimit)
      => /\ ~q.allowed
         /\ ~q.mutated
         /\ q.pc = "done" => q.res = QuotaRes(DailyLimit)

C2_Witness ==
  /\ CoordDone
  /\ last.currentCount = DailyLimit
  /\ last.res.status = 429
  /\ StoredCount(ClientOf(last.ip), DayOf(last.today)) = DailyLimit

\* C3: for every client and day, at most 100 external geocoding calls
\* succeed and every stored count is at most 100.
C3_AtMostLimit ==
  /\ \A c \in Clients, d \in Days : calls[c][d] <= DailyLimit
  /\ \A i \in 1..Len(usageRecords) : usageRecords[i].val.usageCount <= DailyLimit

\* C4: a request that passed the quota check at count 99 and whose
\* incrementUsageCount finds the count at 100 (another request of the client
\* incremented in between) leaves the stored count above 100.
C4_RaceOvershoots ==
  [][\A r \in Reqs :
       (/\ req[r].pc = "increment"
        /\ req[r].allowed
        /\ req[r].currentCount = DailyLimit - 1
        /\ req[r].existingUsage # <<>>
        /\ req[r].existingUsage[1].usageCount >= DailyLimit
        /\ req'[r].pc = "idle")
         => CountIn(usageRecords', req[r].ip, req[r].today) > DailyLimit]_vars

C4_Witness ==
  /\ CoordDone
  /\ last.currentCount = DailyLimit - 1
  /\ last.raised
  /\ last.res.count = DailyLimit + 1
  /\ StoredCount(ClientOf(last.ip), DayOf(last.today)) > DailyLimit

\* C5: the store holds at most one usage record for each (client, date).
C5_OneRecordPerKey ==
  \A i, j \in 1..Len(usageRecords) :
    (/\ usageRecords[i].val.ipAddress = usageRecords[j].val.ipAddress
     /\ usageRecords[i].val.date = usageRecords[j].val.date)
      => i = j

\* C6: a coordinate-to-address request that the quota check refused never
\* issues the external geocoding call and is answered 429.
C6_NoCallAfterRefusal ==
  \A q \in Handled :
    (q.route = "coordinate-to-address" /\ q.pc \notin {"idle", "check"}
       /\ ~q.allowed)
      => /\ ~q.called
         /\ q.pc \in {"checked", "done"}
         /\ q.pc = "done" => q.res.status = 429

C6_Witness ==
  /\ CoordDone
  /\ ~last.allowed
  /\ ~Malformed(last)
  /\ ~last.called
  /\ last.res.status = 429

\* C7: a coordinate-to-address request that is not answered 2xx has not
\* raised the count stored for its client and day.
C7_FailureDoesNotCount ==
  (CoordDone /\ last.res.status \notin 200..299) => ~last.raised

C7_Witness ==
  /\ CoordDone
  /\ last.called
  /\ last.res.status \in {404, 500}
  /\ last.mutated

C11_UsageQueryReadsOnly ==
  [][(started' # started /\ req' = req /\ last'.route = "usage")
       => /\ usageRecords' = usageRecords
          /\ nextId' = nextId
          /\ last'.res.status = 200
          /\ last'.res.limit = 100]_vars

C11_Witness ==
  /\ last.route = "usage"
  /\ last.res.limit = 100
  /\ usageRecords # <<>>
  /\ Lookup(usageRecords, last.ip, last.today) = <<>>

\* a coordinate-to-address request whose external call returned a document
HasDocument(q) ==
  /\ q.route = "coordinate-to-address"
  /\ q.answer.kind = "ok"
  /\ Len(q.answer.documents) > 0

\* q has taken the address from the document, and has not failed since
Extracted(q) ==
  /\ HasDocument(q)
  /\ q.pc = "increment" \/ (q.pc = "done" /\ q.res.status = 200)

\* C12: when documents[0] has both a lot-number address and a road address,
\* the address of the response is the lot-number address_name; the road
\* address_name is the address only when documents[0] has no lot-number
\* address.
C12_LotNumberFirst ==
  \A q \in Handled :
    Extracted(q)
      => /\ (q.answer.documents[1].address /\ q.answer.documents[1].road_address)
              => q.res.address = "address.address_name"
         /\ q.res.address = "road_address.address_name"
              => (~q.answer.documents[1].address
                    /\ q.answer.documents[1].road_address)

C12_Witness ==
  /\ CoordDone
  /\ HasDocument(last)
  /\ last.answer.documents[1].address
  /\ last.answer.documents[1].road_address
  /\ last.res.status = 200
  /\ last.res.address = "address.address_name"

UpstreamFailed(q) ==
  /\ q.route = "coordinate-to-address"
  /\ q.pc = "done"
  /\ q.answer.kind = "axiosError"

\* C14: upstream HTTP 401 is answered 500, upstream HTTP 429 is answered
\* 429, every other upstream HTTP error and a network failure are answered
\* 500, and an upstream success with no documents is answered 404.
C14_UpstreamStatusMapping ==
  /\ UpstreamFailed(last)
       => last.res.status = IF last.answer.status = 429 THEN 429 ELSE 500
  /\ (CoordDone /\ last.answer.kind = "ok" /\ Len(last.answer.documents) = 0)
       => last.res.status = 404

C14_Witness ==
  /\ UpstreamFailed(last)
  /\ last.answer.status = 401
  /\ last.res.status = 500

\* C15 as stated: an upstream rate-limit failure is answered 500, like an
\* upstream authentication failure and other upstream failures.
C15_RateLimitIs500 ==
  UpstreamFailed(last) => last.res.status = 500

\* C15 amended: an upstream rate-limit failure (HTTP 429) is answered 429
\* with the message "API rate limit exceeded"; an upstream authentication
\* failure and every other upstream failure are answered 500.
C15_RateLimitIs429 ==
  UpstreamFailed(last)
    => IF last.answer.status = 429
       THEN last.res = Res(429, "API rate limit exceeded")
       ELSE /\ last.res.status = 500
            /\ last.res.message \in {"API authentication failed",
                                      "External API error"}

C15_Witness ==
  /\ UpstreamFailed(last)
  /\ last.answer.status = 429
  /\ last.res.status = 429
  /\ last.allowed

C17_SuccessCountsOne ==
  [][\A r \in Reqs :
       (/\ req[r].pc = "increment"
        /\ req[r].route = "coordinate-to-address"
        /\ req'[r].pc = "idle"
        /\ last'.res.status = 200)
         => LET q == req[r]
                before == CountIn(usageRecords, q.ip, q.today)
                after == CountIn(usageRecords', q.ip, q.today)
            IN /\ after = before + 1
               /\ last'.res.count = after
               /\ started = 1 => last'.res.count = q.currentCount + 1]_vars

MarkersOn(m) == {k \in 1..Len(widget.markers) : widget.markers[k].map = m}

\* C19: after any sequence of map initialisations, clicks and changes of
\* the selected location, every map has at most one marker attached, and
\* it is the marker markerInstance refers to.
C19_AtMostOneMarker ==
  \A m \in 1..Len(widget.maps) :
    /\ Cardinality(MarkersOn(m)) <= 1
    /\ MarkersOn(m) \subseteq {widget.markerInstance}

C19_Witness ==
  /\ Len(widget.maps) >= 2
  /\ Len(widget.markers) >= 2
  /\ widget.markers[1].map = 0
  /\ Cardinality(MarkersOn(widget.mapInstance)) = 1

\* C20: the map on display has exactly one click listener, and a click on
\* it invokes onLocationSelect exactly once, with the latitude and longitude
\* of the click.
C20_OneCallPerClick ==
  /\ widget.mapInstance # 0 => Len(widget.maps[widget.mapInstance]) = 1
  /\ clicked # NoClick
       => /\ Len(clicked.calls) = 1
          /\ clicked.calls[1].callback \in Callbacks
          /\ clicked.calls[1].location = clicked.at[1]

C20_Witness ==
  /\ Len(widget.maps) >= 2
  /\ clicked # NoClick
  /\ Len(clicked.calls) = 1
  /\ clicked.calls[1].location = clicked.at[1]

\* C21: the SDK becomes available at most once and no mount or render makes
\* it so; a mount that finds the SDK initialises the map; and a widget
\* mounted before the SDK was available has an initialised map some time
\* after it has loaded.
C21_MapInitialisedOnceSdkLoaded ==
  /\ [][kakao' # kakao => (~kakao /\ props' = props)]_vars
  /\ [][(~Mounted /\ Mounted' /\ kakao) => widget'.mapInstance # 0]_vars
  /\ (Mounted /\ kakao) ~> (widget.mapInstance # 0)

\* C23: updateUsageCount of storage.ts, for a (client, date) that has a
\* record, stores the given count in that record and keeps its id,
\* ipAddress, date and createdAt; an update that throws "Usage record not
\* found" leaves the store as it was; and the update incrementUsageCount
\* makes for a record it found does not throw and stores the new count in
\* that record.
C23_UpdateAddressesRecord ==
  /\ [](build = "server" =>
         \A c \in Clients, d \in Days, count \in {0, 1, DailyLimit} :
            updateFinds_server(usageRecords, IpAddr(c), DateStr(d)) =>
              LET key == getKey(IpAddr(c), DateStr(d))
                  old == MapGet(usageRecords, key)[1]
                  new == MapGet(updateUsageCount_server(
                                  usageRecords, IpAddr(c), DateStr(d), count, day),
                                key)[1]
              IN /\ new.usageCount = count
                 /\ new.id = old.id /\ new.ipAddress = old.ipAddress
                 /\ new.date = old.date /\ new.createdAt = old.createdAt)
  /\ [][\A r \in Reqs :
          (req[r].pc = "increment" /\ req[r] # req'[r]) =>
            /\ last'.error = NotFoundError => usageRecords' = usageRecords
            /\ req[r].existingUsage # <<>> =>
                 LET old == req[r].existingUsage[1]
                     new == Lookup(usageRecords', old.ipAddress, old.date)
                 IN /\ last'.error = NoError
                    /\ new # <<>>
                    /\ new[1].id = old.id
                    /\ new[1].usageCount = NewCount(req[r].existingUsage)]_vars

\* C24: no step lowers the count stored for a client and a day.
C24_CountNeverDecreases ==
  [][\A c \in Clients, d \in Days : StoredCount(c, d)' >= StoredCount(c, d)]_vars

\* the latest answer is the quota check's refusal of a request of client c
\* made on day d
QuotaRefused(c, d) ==
  /\ last.pc = "done" /\ last.route \in Routes
  /\ ~last.allowed
  /\ last.ip = IpAddr(c) /\ last.today = DateStr(d)

\* the count a request's lookup found is at the limit or above it
FoundAtLimit(q) ==
  q.existingUsage # <<>> /\ q.existingUsage[1].usageCount >= DailyLimit

RecordsExcept(recs, ipAddress, date) ==
  SelectSeq(recs, LAMBDA e : ~(e.val.ipAddress = ipAddress /\ e.val.date = date))

\* C26: a step of checkUsageLimit or incrementUsageCount for a request of
\* client a leaves every record that is not of (a, the date the function
\* computed) as it was, and no other step (a usage query, the arrival of a
\* request, the rest of a handler) changes the store.
C26_OnlyOwnRecord ==
  [][/\ \A r \in Reqs :
          (req[r].pc \in {"check", "increment"} /\ req'[r] # req[r])
            => RecordsExcept(usageRecords', req[r].ip, req[r].today)
                 = RecordsExcept(usageRecords, req[r].ip, req[r].today)
     /\ (\A r \in Reqs :
           req[r].pc \notin {"check", "increment"} \/ req'[r] = req[r])
          => usageRecords' = usageRecords]_vars

\* client 2's request has just stored or changed a record while the store
\* holds a record of client 1
C26_Witness ==
  /\ last.pc = "done" /\ last.ip = IpAddr(2) /\ last.mutated
  /\ \E i \in 1..Len(usageRecords) : usageRecords[i].val.ipAddress = IpAddr(1)
  /\ \E i \in 1..Len(usageRecords) : usageRecords[i].val.ipAddress = IpAddr(2)

\* C27: a static-map request whose quota check finds the stored count at
\* 100 or more is refused and answered 429 with the quota message; one that
\* the check allowed and whose body is malformed is answered 400, has
\* raised no count and goes no further; one whose body is valid goes on to
\* incrementUsageCount, and that step raises the count stored for its client
\* and day by one and answers with the image.
C27_StaticMapCounts ==
  /\ [](\A q \in Handled :
          (q.route = "static-map" /\ q.pc \in {"checked", "done"}
             /\ q.currentCount >= DailyLimit)
            => /\ ~q.allowed
               /\ q.pc = "done" => q.res = QuotaRes(q.currentCount))
  /\ [][\A r \in Reqs :
          LET q == req[r]
          IN /\ (/\ q.route = "static-map" /\ q.pc = "checked" /\ q.allowed
                 /\ req'[r] # q)
                  => IF safeParse(q.body)
                     THEN req'[r].pc = "increment"
                     ELSE /\ req'[r].pc = "idle"
                          /\ last'.res = InvalidBodyRes
                          /\ ~last'.raised
                          /\ usageRecords' = usageRecords
             /\ (q.route = "static-map" /\ q.pc = "increment" /\ req'[r] # q)
                  => /\ CountIn(usageRecords', q.ip, q.today)
                          = CountIn(usageRecords, q.ip, q.today) + 1
                     /\ last'.res = SvgRes]_vars

\* the fetches of the page that have not been answered yet
Outstanding == {i \in 1..Len(page.fetches) : page.fetches[i].state = "sent"}

\* C22: a call of handleLocationSelect made while a fetch is outstanding
\* sends a request of its own and leaves the outstanding fetches and the
\* server's handling of their requests as they were; a request of the page
\* leaves the server only with an answer, which its fetch receives; and the
\* step in which the server answers a request of the page with 200 raises
\* the count stored for the browser by one.
C22_SecondClickKeepsFirst ==
  [][/\ (page'.clicks # page.clicks /\ Outstanding # {}
           /\ ~page.isUsageLimitExceeded)
          => /\ Len(page'.fetches) = Len(page.fetches) + 1
             /\ \A i \in 1..Len(page.fetches) : page'.fetches[i] = page.fetches[i]
             /\ \A r \in Reqs : req[r].pc # "idle" => req'[r] = req[r]
             /\ \E r \in Reqs : req[r].pc = "idle" /\ req'[r].pc = "check"
     /\ \A r \in Reqs :
          (req[r].pc # "idle" /\ req'[r].pc = "idle")
            => /\ last'.pc = "done" /\ last'.res.status # 0
               /\ \E i \in Outstanding :
                    /\ page'.fetches[i].state = "answered"
                    /\ page'.fetches[i].res = last'.res
               /\ Ok(last'.res) =>
                    CountIn(usageRecords', req[r].ip, req[r].today)
                      = CountIn(usageRecords, req[r].ip, req[r].today) + 1]_vars

\* C28: isLoading is true in every state in which a fetch started by
\* handleLocationSelect has not been responded to.
C28_LoadingWhileOutstanding ==
  Outstanding # {} => page.isLoading

\* the fetches of the page whose handleLocationSelect has not ended yet
Unfinished == {i \in 1..Len(page.fetches) : page.fetches[i].state # "done"}

\* C29: when every fetch the page has started has ended and all were
\* answered 2xx, the selected location has the latitude and longitude of
\* the latest call of handleLocationSelect; and an address that a response
\* brought is shown with the latitude and longitude it was requested for.
C29_LatestClickSelected ==
  /\ (/\ page.fetches # <<>>
      /\ Unfinished = {}
      /\ \A i \in 1..Len(page.fetches) : Ok(page.fetches[i].res))
       => LET latest == page.fetches[Len(page.fetches)].location
          IN /\ page.selectedLocation # <<>>
             /\ page.selectedLocation[1].lat = latest.lat
             /\ page.selectedLocation[1].lng = latest.lng
  /\ page.selectedLocation # <<>>
       => /\ page.selectedLocation[1].address.of.lat = page.selectedLocation[1].lat
          /\ page.selectedLocation[1].address.of.lng = page.selectedLocation[1].lng

\* the usage data last fetched has count >= limit
FetchedAtLimit == page.data # <<>> /\ page.data[1].count >= page.data[1].limit

\* a call of handleLocationSelect that shows the limit toast and sends no
\* request
ShowsLimitToast ==
  /\ page'.toast = LimitToast
  /\ page'.fetches = page.fetches
  /\ page'.isLoading = page.isLoading
  /\ UNCHANGED serverVars

====
